---- MODULE Spec2Model ----
(***************************************************************************)
(* Genesis engine (genetic algorithm for prompt evolution) of the          *)
(* evidenra analysis server: evolvePrompt and the functions it calls.      *)
(*                                                                         *)
(* Prompt texts are abstracted to small integers (BasePrompt is the text   *)
(* handed in by the caller, 1..MaxText are texts produced by the external  *)
(* text-generation service).  Fitness values are fixed-point numbers in    *)
(* units of 1/7500, in which every number of calculatePromptFitness is an  *)
(* integer (0.2 = 1500, 0.05 = 375, 0.08 = 600, 0.98 = 7350, 1 = 7500).    *)
(* Rates and Math.random() draws are in tenths.                            *)
(***************************************************************************)
EXTENDS Integers, Sequences, FiniteSets, TLC

\* ---------------------------------------------------------------- bounds
MaxGen == 2
MaxPop == 3
MaxText == 1
MaxWork == 6
MaxCodingCount == 5

\* ------------------------------------------------------ program constants
idealLength == 1500
tournamentSize == 3
methodTerms == 5

Scale == 5 * idealLength
Weight == Scale \div 5
CodingStep == Scale \div 20
MethodStep == (8 * Scale) \div 100
ConvergenceThreshold == (98 * Scale) \div 100

Undefined == -1
BasePrompt == 0
GeneratedTexts == 1..MaxText
Texts == {BasePrompt} \cup GeneratedTexts

Rates == {0, 5}
RandomDraws == {0, 5, 9}

Max(a, b) == IF a >= b THEN a ELSE b
Min(a, b) == IF a <= b THEN a ELSE b
Abs(a) == IF a >= 0 THEN a ELSE 0 - a

\* ---------------------------------------------- the external service
\* A text-generation call either fails (ok = FALSE) or returns a text.  For
\* mutation and crossover only the returned text matters; for the fitness
\* evaluation only the features of the text that calculatePromptFitness reads.
ApiFailure ==
  [ok |-> FALSE, text |-> Undefined, bracket |-> FALSE, codingCount |-> 0,
   reason |-> FALSE, methodScore |-> 0, len |-> 0]

TextResponse(t) == [ApiFailure EXCEPT !.ok = TRUE, !.text = t]

AnalysisResponse(b, c, r, m, l) ==
  [ok |-> TRUE, text |-> Undefined, bracket |-> b, codingCount |-> c,
   reason |-> r, methodScore |-> m, len |-> l]

TextOutcomes == {ApiFailure} \cup {TextResponse(t) : t \in GeneratedTexts}

EvalOutcomes ==
  {ApiFailure,
   AnalysisResponse(TRUE, 2, TRUE, 1, idealLength),
   AnalysisResponse(TRUE, 9, TRUE, 5, idealLength)}

\* variant: only the evaluation call is wrapped in try/catch
Caught_FitnessOnly(site) == site = "fitness"

\* try/catch around the external call at each call site
Caught(site) == site \in {"fitness", "mutation", "crossover"}

Rejects(site, out) == ~out.ok /\ ~Caught(site)

\* ---------------------------------------------------- pure functions
\* the five sub-signals of calculatePromptFitness
StructureSignal(r) == IF r.bracket THEN Weight ELSE 0
CodingsSignal(r) == Min(r.codingCount * CodingStep, Weight)
ReasoningSignal(r) == IF r.reason THEN Weight ELSE 0
MethodologySignal(r) == r.methodScore * MethodStep
LengthSignal(r) ==
  Max(0, Weight - (Abs(r.len - idealLength) * Weight) \div idealLength)

Signals(r) ==
  [structure |-> StructureSignal(r), codings |-> CodingsSignal(r),
   reasoning |-> ReasoningSignal(r), methodology |-> MethodologySignal(r),
   length |-> LengthSignal(r)]

FitnessSum(r) ==
  StructureSignal(r) + CodingsSignal(r) + ReasoningSignal(r) +
  MethodologySignal(r) + LengthSignal(r)

calculatePromptFitness(out) ==
  IF out.ok THEN Min(FitnessSum(out), Scale) ELSE 0

mutatePrompt(prompt, out) == IF out.ok THEN out.text ELSE prompt

crossoverPrompts(p1, p2, out, coin) ==
  IF out.ok THEN out.text ELSE IF coin > 5 THEN p1 ELSE p2

Individual(p, f) == [prompt |-> p, fitness |-> f]

\* history of the external calls of one step: for each call site whether it
\* was called, whether the call succeeded, its inputs and what the call site
\* returned.  Kept only while callLog.on.
NoCall == [called |-> FALSE, ok |-> FALSE, inputs |-> <<>>, value |-> Undefined]
Call(inputs, out, value) ==
  [called |-> TRUE, ok |-> out.ok, inputs |-> inputs, value |-> value]
NotLogging ==
  [on |-> FALSE, fitness |-> NoCall, crossover |-> NoCall, mutation |-> NoCall]
Logged(log, f, c, m) ==
  IF log.on THEN [on |-> TRUE, fitness |-> f, crossover |-> c, mutation |-> m]
  ELSE log
EmptyObject == Individual(Undefined, Undefined)

\* { ...population[i] }: an index past the end reads undefined, and spreading
\* undefined gives an object without prompt and fitness
SpreadAt(pop, i) == IF i \in DOMAIN pop THEN pop[i] ELSE EmptyObject

\* variant: the comparator sorts ascending
Compare_Ascending(a, b) == a.fitness - b.fitness

\* evaluated.sort((a, b) => b.fitness - a.fitness): stable, descending
Compare(a, b) == b.fitness - a.fitness

RECURSIVE InsertSorted(_, _)
InsertSorted(s, x) ==
  IF s = <<>> THEN <<x>>
  ELSE IF Compare(Head(s), x) > 0 THEN <<x>> \o s
  ELSE <<Head(s)>> \o InsertSorted(Tail(s), x)

RECURSIVE SortByFitness(_)
SortByFitness(s) ==
  IF s = <<>> THEN <<>>
  ELSE InsertSorted(SortByFitness(SubSeq(s, 1, Len(s) - 1)), s[Len(s)])

EliteCount(populationSize) == Max(2, (populationSize * 1) \div 10)

Elites(pop, eliteCount) == [i \in 1..eliteCount |-> SpreadAt(pop, i)]

\* variant: the drawn index is one too high, so the last draw reads past the end
tournamentSelect_OffByOne(pop, draws) ==
  SortByFitness([k \in 1..tournamentSize |-> SpreadAt(pop, draws[k] + 1)])[1]

\* variant: among the drawn individuals of highest fitness the last one drawn
tournamentSelect_LastOfTies(pop, draws) ==
  LET best == CHOOSE k \in 1..tournamentSize :
                /\ \A j \in 1..tournamentSize :
                     pop[draws[j]].fitness <= pop[draws[k]].fitness
                /\ \A j \in (k + 1)..tournamentSize :
                     pop[draws[j]].fitness < pop[draws[k]].fitness
  IN pop[draws[best]]

\* tournamentSelect: the drawn individuals, sorted, first one
tournamentSelect(pop, draws) ==
  SortByFitness([k \in 1..tournamentSize |-> pop[draws[k]]])[1]

TournamentResults(pop) ==
  {tournamentSelect(pop, d) : d \in [1..tournamentSize -> DOMAIN pop]}

\* variants of the comparison: the current best always replaces the best
\* ever; an equal score counts as an improvement
IsImprovement_Always(currentBest, best) == TRUE
IsImprovement_OrEqual(currentBest, best) == currentBest.fitness >= best.fitness

IsImprovement(currentBest, best) == currentBest.fitness > best.fitness

\* variant: the improvement is measured from 0 in every generation
PreviousFitness_Zero(g, imps) == 0

PreviousFitness(g, imps) ==
  IF g > 0
  THEN (IF Len(imps) > 0 /\ imps[Len(imps)].fitness # 0
        THEN imps[Len(imps)].fitness ELSE 0)
  ELSE 0

\* variant: the first record of a run carries improvement 0
ImprovementRecord_FirstZero(g, currentBest, imps) ==
  [generation |-> g, fitness |-> currentBest.fitness,
   improvement |-> IF imps = <<>> THEN 0
                   ELSE currentBest.fitness - PreviousFitness(g, imps)]

ImprovementRecord(g, currentBest, imps) ==
  [generation |-> g, fitness |-> currentBest.fitness,
   improvement |-> currentBest.fitness - PreviousFitness(g, imps)]

\* variant: the loop is never left early
Converged_Never(currentBest) == FALSE

\* variant: the threshold is tested for equality
Converged_Equal(currentBest) == currentBest.fitness = ConvergenceThreshold

Converged(currentBest) == currentBest.fitness >= ConvergenceThreshold

\* variant: off by one in the loop test
LoopCondition_Inclusive(g, generations) == g <= generations

LoopCondition(g, generations) == g < generations

\* variant: the pass is left without waiting for the outstanding calls
PassSettled_Any(outstanding) == TRUE

\* await Promise.all(...): every call of the pass has completed or failed
PassSettled(outstanding) == outstanding = {}

ReproductionPending(newPop, pop) == Len(newPop) < Len(pop)

SeedingPending(pop, size) == Len(pop) < size

\* variant: the base prompt is returned with the best fitness
Result_BasePrompt(best, imps) ==
  [best |-> BasePrompt, fitness |-> best.fitness,
   generationsRun |-> Len(imps), improvements |-> imps]

\* variant: the generation of the last improvement is reported
Result_LastGeneration(best, imps) ==
  [best |-> best.prompt, fitness |-> best.fitness,
   generationsRun |-> IF imps = <<>> THEN 0 ELSE imps[Len(imps)].generation + 1,
   improvements |-> imps]

Result(best, imps) ==
  [best |-> best.prompt, fitness |-> best.fitness,
   generationsRun |-> Len(imps), improvements |-> imps]

NoResult ==
  [best |-> Undefined, fitness |-> Undefined, generationsRun |-> Undefined,
   improvements |-> <<>>]

\* the highest fitness of a pass (history only)
TopFitness(pop) ==
  CHOOSE f \in {pop[i].fitness : i \in DOMAIN pop} :
    \A i \in DOMAIN pop : pop[i].fitness <= f

\* ------------------------------------------ subscriptions and gating
Subscriptions == {"free", "basic", "pro", "ultimate"}

\* decoded.user_metadata?.subscription is absent; a value outside the table
NoSubscription == "undefined"
UnknownSubscription == "enterprise"
TokenSubscriptions == Subscriptions \cup {NoSubscription, UnknownSubscription}
ClientSubscriptions == Subscriptions \cup {UnknownSubscription}

\* the feature names handed to requireFeature by the routes
FeatureNames == {"genesis", "akih", "coding", "irr", "reports"}

\* HTTP status codes sent by the middlewares and the handlers
NoStatus == 0
Ok == 200
BadRequest == 400
Unauthorized == 401
Forbidden == 403
ServerError == 500

\* the outcome of jwt.verify for a token, and the subscription it carries
NoToken == [verify |-> "none", subscription |-> NoSubscription]
Tokens ==
  {[verify |-> "ok", subscription |-> s] : s \in TokenSubscriptions} \cup
  {[verify |-> e, subscription |-> NoSubscription] :
     e \in {"TokenExpiredError", "JsonWebTokenError", "NotBeforeError"}}

NoHeader == [scheme |-> "none", token |-> NoToken]
Headers == {NoHeader} \cup {[scheme |-> h, token |-> t] : h \in {"Basic", "Bearer"}, t \in Tokens}

\* the gated entries of the feature table of getFeaturesBySubscription
FeatureTable ==
  [free |-> [genesis |-> FALSE, akih |-> FALSE],
   basic |-> [genesis |-> FALSE, akih |-> TRUE],
   pro |-> [genesis |-> TRUE, akih |-> TRUE],
   ultimate |-> [genesis |-> TRUE, akih |-> TRUE]]

\* variant: the server grants what the client's feature matrix grants
getFeaturesBySubscription_ClientMatrix(subscription) ==
  IF subscription \in {"basic", "pro", "ultimate"}
  THEN FeatureTable.pro ELSE FeatureTable.free

getFeaturesBySubscription(subscription) ==
  IF subscription \in DOMAIN FeatureTable
  THEN FeatureTable[subscription] ELSE FeatureTable.free

NoUser == [set |-> FALSE, subscription |-> NoSubscription, features |-> FeatureTable.free]

\* req.user as attached by validateSupabaseJWT
User(token) ==
  [set |-> TRUE,
   subscription |-> IF token.subscription = NoSubscription THEN "free"
                    ELSE token.subscription,
   features |-> getFeaturesBySubscription(token.subscription)]

\* variant: a bearer token is accepted without verification
validateSupabaseJWT_Unverified(authorization) ==
  IF authorization.scheme # "Bearer" THEN Unauthorized ELSE NoStatus

\* validateSupabaseJWT: the status it sends, NoStatus when it calls next()
validateSupabaseJWT(authorization) ==
  IF authorization.scheme # "Bearer" THEN Unauthorized
  ELSE IF authorization.token.verify = "ok" THEN NoStatus
  ELSE IF authorization.token.verify = "TokenExpiredError" THEN Unauthorized
  ELSE IF authorization.token.verify = "JsonWebTokenError" THEN Unauthorized
  ELSE ServerError

\* requireFeature(featureName): the status it sends, NoStatus when it calls
\* next()
requireFeature(featureName, user) ==
  IF ~user.set THEN Forbidden
  ELSE IF featureName = "genesis" /\ ~user.features.genesis THEN Forbidden
  ELSE IF featureName = "akih" /\ ~user.features.akih THEN Forbidden
  ELSE NoStatus

\* EvidenraClient.hasFeature
ClientFeatures ==
  [free |-> {},
   basic |-> {"akih", "genesis", "personas"},
   pro |-> {"akih", "genesis", "personas", "advanced-methodologies"},
   ultimate |-> {"akih", "genesis", "personas", "advanced-methodologies",
                 "team-collaboration", "quantum-coding"}]

hasFeature(subscription, feature) ==
  /\ subscription \in DOMAIN ClientFeatures
  /\ feature \in ClientFeatures[subscription]

\* defaults of evolvePrompt's destructuring (rates in tenths) and of the route
DefaultMutationRate == 1
DefaultCrossoverRate == 7
DefaultGenerations == 10
DefaultPopulationSize == 20

\* v || d
OrDefault(v, d) == IF v = Undefined \/ v = 0 THEN d ELSE v

\* the request bodies explored and the configuration the route builds
Bodies == {[generations |-> 1, populationSize |-> 3]}
NoBody == [generations |-> Undefined, populationSize |-> Undefined]

RouteConfig(body) ==
  [generations |-> OrDefault(body.generations, DefaultGenerations),
   populationSize |-> OrDefault(body.populationSize, DefaultPopulationSize),
   mutationRate |-> DefaultMutationRate,
   crossoverRate |-> DefaultCrossoverRate]

NoClient ==
  [subscription |-> NoSubscription, accessToken |-> NoToken, threw |-> FALSE,
   requests |-> 0, returned |-> FALSE]

Clients ==
  {[NoClient EXCEPT !.subscription = s, !.accessToken = t] :
     s \in ClientSubscriptions, t \in Tokens \cup {NoToken}}

NoRequest ==
  [via |-> "none", feature |-> "genesis", authorization |-> NoHeader,
   user |-> NoUser, body |-> NoBody]

NoResponse == [status |-> NoStatus, sent |-> 0]

\* ------------------------------------------------------------- state
VARIABLES config, pc, population, evaluated, pending, gen, bestEver,
          improvements, newPopulation, parent1, parent2, result, calls,
          passes, reproductions, allZero, maxTop, callLog,
          client, req, res, stage, scoring, heap, runs

\* the state of a run of evolvePrompt
engineVars == <<config, pc, population, evaluated, pending, gen, bestEver,
                improvements, newPopulation, parent1, parent2, result, calls,
                passes, reproductions, allZero, maxTop, callLog>>

\* the state of one request: the EvidenraClient, req and res of the server,
\* and the position of the request in the middleware chain
apiVars == <<client, req, res, stage>>

\* the state of the checks of single functions: the response being scored
\* by calculatePromptFitness and what it returned; the objects and arrays of
\* one call of evaluateFitness, tournamentSelect or evolvePopulation; which
\* of two concurrent calls of evolvePrompt is executing and the variables of
\* the one suspended at an await
unitVars == <<scoring, heap, runs>>

vars == <<engineVars, apiVars, unitVars>>

NoScoring ==
  [stage |-> "none", response |-> ApiFailure, signals |-> Signals(ApiFailure),
   fitness |-> Undefined]

\* objects have an identity: heap.objects[id] is the object with reference
\* id, and an array is a sequence of references.  given is the population
\* handed to the function, local the array it builds (evaluated,
\* newPopulation), tournament the array of tournamentSelect, before the
\* given array and the objects as they were at the call.
NoHeap ==
  [objects |-> <<>>, given |-> <<>>, local |-> <<>>, tournament |-> <<>>,
   parents |-> <<>>, op |-> "none", stage |-> "none",
   before |-> [given |-> <<>>, objects |-> <<>>], returned |-> <<>>]

\* array.sort((a, b) => b.fitness - a.fitness) on an array of references
SortRefs(objects, refs) ==
  LET keyed == [k \in DOMAIN refs |->
                  [ref |-> refs[k], fitness |-> objects[refs[k]].fitness]]
      sorted == SortByFitness(keyed)
  IN [k \in DOMAIN refs |-> sorted[k].ref]

\* variant: the population handed in is sorted
SortedArray_Given(op) == "given"

\* the array sort is called on: evaluated (line 91), tournament (line 258)
SortedArray(op) == IF op = "evaluateFitness" THEN "local" ELSE "tournament"

\* tournamentSelect on the heap: the tournament is filled with references
\* to drawn members, sort is called, element 0 of the tournament is returned
Selected(h, draws) ==
  LET filled == [h EXCEPT !.tournament =
                   [k \in 1..tournamentSize |-> h.given[draws[k]]]]
      target == SortedArray(h.op)
  IN [filled EXCEPT ![target] = SortRefs(h.objects, filled[target])]

\* a single call of evolvePrompt: nothing is suspended
NoRuns == [running |-> 0, suspended |-> [pc |-> "none"]]

\* what is declared at module level (lines 10 and 276); every other name a
\* run uses is a parameter or a local of evolvePrompt (lines 15-28)
ModuleLevel == {"anthropic", "GENESIS_CONFIG"}

\* variant: the population is kept in a module-level variable
Local_SharedPopulation(v) == v \notin ModuleLevel \cup {"population"}

\* each call of evolvePrompt has its own copy of the variable
Local(v) == v \notin ModuleLevel

\* no single-function check is under way
UnitsIdle == scoring = NoScoring /\ heap = NoHeap /\ runs = NoRuns

\* the configurations explored: a run performs at most
\* generations * populationSize fitness evaluations, bounded by MaxWork
Configs ==
  {c \in [generations : 0..MaxGen, populationSize : 0..MaxPop,
          mutationRate : Rates, crossoverRate : Rates] :
     c.generations * c.populationSize <= MaxWork}

Init ==
  /\ config \in Configs
  /\ pc = "initializing"
  /\ population = <<Individual(BasePrompt, 0)>>
  /\ evaluated = <<>>
  /\ pending = {}
  /\ gen = 0
  /\ bestEver = Individual(BasePrompt, 0)
  /\ improvements = <<>>
  /\ newPopulation = <<>>
  /\ parent1 = EmptyObject
  /\ parent2 = EmptyObject
  /\ result = NoResult
  /\ calls = [fitness |-> 0, mutation |-> 0, crossover |-> 0]
  /\ passes = 0
  /\ reproductions = 0
  /\ allZero = TRUE
  /\ maxTop = 0
  /\ callLog = NotLogging
  /\ client = NoClient
  /\ req = NoRequest
  /\ res = NoResponse
  /\ stage = "engine"
  /\ UnitsIdle

Reject ==
  /\ pc' = "rejected"
  /\ UNCHANGED <<config, population, evaluated, pending, gen, bestEver,
                 improvements, newPopulation, parent1, parent2, result,
                 passes, reproductions, allZero, maxTop>>

\* head of the for loop for generation g with population pop: either the
\* evaluation pass is dispatched (all calls issued together) or the loop is
\* left and the result returned
EnterGeneration(g, pop, best, imps) ==
  IF LoopCondition(g, config.generations)
  THEN /\ pc' = "evaluating"
       /\ evaluated' = pop
       /\ pending' = DOMAIN pop
       /\ calls' = [calls EXCEPT !.fitness = @ + Len(pop)]
       /\ passes' = passes + 1
       /\ result' = result
  ELSE /\ pc' = "done"
       /\ result' = Result(best, imps)
       /\ UNCHANGED <<evaluated, pending, calls, passes>>

\* one iteration of the seeding loop of initializePopulation
InitializePopulationStep ==
  /\ pc = "initializing"
  /\ UNCHANGED <<apiVars, unitVars>>
  /\ SeedingPending(population, config.populationSize)
  /\ \E out \in TextOutcomes :
       /\ calls' = [calls EXCEPT !.mutation = @ + 1]
       /\ callLog' = Logged(callLog, NoCall, NoCall,
                            Call(<<BasePrompt>>, out, mutatePrompt(BasePrompt, out)))
       /\ IF Rejects("mutation", out)
          THEN Reject
          ELSE /\ population' =
                    Append(population, Individual(mutatePrompt(BasePrompt, out), 0))
               /\ UNCHANGED <<config, pc, evaluated, pending, gen, bestEver,
                              improvements, newPopulation, parent1, parent2,
                              result, passes, reproductions, allZero, maxTop>>

\* initializePopulation returns; bestEver and improvements are set up and the
\* loop is entered
InitializePopulationReturn ==
  /\ pc = "initializing"
  /\ UNCHANGED <<apiVars, unitVars>>
  /\ ~SeedingPending(population, config.populationSize)
  /\ bestEver' = Individual(BasePrompt, 0)
  /\ improvements' = <<>>
  /\ gen' = 0
  /\ callLog' = Logged(callLog, NoCall, NoCall, NoCall)
  /\ EnterGeneration(0, population, bestEver', improvements')
  /\ UNCHANGED <<config, population, newPopulation, parent1, parent2,
                 reproductions, allZero, maxTop>>

\* one calculatePromptFitness call of the running pass completes or fails
EvaluateIndividual ==
  /\ pc = "evaluating"
  /\ UNCHANGED <<apiVars, unitVars>>
  /\ \E i \in pending, out \in EvalOutcomes :
       IF Rejects("fitness", out)
       THEN Reject /\ UNCHANGED <<calls, callLog>>
       ELSE LET f == calculatePromptFitness(out) IN
            /\ evaluated' = [evaluated EXCEPT ![i].fitness = f]
            /\ callLog' = Logged(callLog, Call(<<evaluated[i].prompt>>, out, f),
                                 NoCall, NoCall)
            /\ pending' = pending \ {i}
            /\ allZero' = (allZero /\ f = 0)
            /\ UNCHANGED <<config, pc, population, gen, bestEver, improvements,
                           newPopulation, parent1, parent2, result, calls,
                           passes, reproductions, maxTop>>

\* Promise.all resolves: sort, track the best, break or start reproduction
\* (evolvePopulation up to the elite copy)
EvaluateFitnessReturn ==
  /\ pc = "evaluating"
  /\ UNCHANGED <<apiVars, unitVars>>
  /\ PassSettled(pending)
  /\ LET sorted == SortByFitness(evaluated)
         currentBest == sorted[1]
         improved == IsImprovement(currentBest, bestEver)
     IN /\ population' = sorted
        /\ evaluated' = <<>>
        /\ bestEver' = IF improved THEN currentBest ELSE bestEver
        /\ improvements' =
             IF improved
             THEN Append(improvements, ImprovementRecord(gen, currentBest, improvements))
             ELSE improvements
        /\ IF Converged(currentBest)
           THEN /\ pc' = "done"
                /\ result' = Result(bestEver', improvements')
                /\ UNCHANGED <<newPopulation, reproductions>>
           ELSE /\ pc' = "reproducing"
                /\ newPopulation' = Elites(sorted, EliteCount(config.populationSize))
                /\ reproductions' = reproductions + 1
                /\ result' = result
  /\ UNCHANGED <<config, pending, gen, parent1, parent2, calls, passes,
                 allZero>>
  /\ maxTop' = Max(maxTop, TopFitness(evaluated))
  /\ callLog' = Logged(callLog, NoCall, NoCall, NoCall)

\* Math.random() < crossoverRate, Math.random() < mutationRate
\* variant: <= in place of <
ApplyCrossover_Inclusive(r, crossoverRate) == r <= crossoverRate

ApplyCrossover(r, crossoverRate) == r < crossoverRate
ApplyMutation(r, mutationRate) == r < mutationRate

\* the child when no crossover is applied
UncrossedChild(p1, p2) == p1.prompt

\* one iteration of the while loop of evolvePopulation: two tournaments, the
\* optional crossover and the optional mutation, and the push of the child
Offspring ==
  /\ pc = "reproducing"
  /\ UNCHANGED <<apiVars, unitVars>>
  /\ ReproductionPending(newPopulation, population)
  /\ LET selectable == TournamentResults(population) IN
     \E p1 \in selectable, p2 \in selectable, rc \in RandomDraws, rm \in RandomDraws :
     LET doCross == ApplyCrossover(rc, config.crossoverRate)
         doMut == ApplyMutation(rm, config.mutationRate)
     IN \E cout \in (IF doCross THEN TextOutcomes ELSE {ApiFailure}),
           coin \in (IF doCross THEN RandomDraws ELSE {0}),
           mout \in (IF doMut THEN TextOutcomes ELSE {ApiFailure}) :
       LET crossThrows == doCross /\ Rejects("crossover", cout)
           mutThrows == doMut /\ ~crossThrows /\ Rejects("mutation", mout)
           crossed == IF doCross
                      THEN crossoverPrompts(p1.prompt, p2.prompt, cout, coin)
                      ELSE UncrossedChild(p1, p2)
           child == IF doMut THEN mutatePrompt(crossed, mout) ELSE crossed
       IN /\ calls' = [calls EXCEPT
                         !.crossover = @ + (IF doCross THEN 1 ELSE 0),
                         !.mutation = @ + (IF doMut /\ ~crossThrows THEN 1 ELSE 0)]
          /\ callLog' = Logged(callLog, NoCall,
                 IF doCross THEN Call(<<p1.prompt, p2.prompt>>, cout, crossed)
                 ELSE NoCall,
                 IF doMut /\ ~crossThrows THEN Call(<<crossed>>, mout, child)
                 ELSE NoCall)
          /\ IF crossThrows \/ mutThrows
             THEN Reject
             ELSE /\ parent1' = p1
                  /\ parent2' = p2
                  /\ newPopulation' = Append(newPopulation, Individual(child, 0))
                  /\ UNCHANGED <<config, pc, population, evaluated, pending, gen,
                                 bestEver, improvements, result, passes,
                                 reproductions, allZero, maxTop>>

\* evolvePopulation returns; gen++ and the loop test
EvolvePopulationReturn ==
  /\ pc = "reproducing"
  /\ UNCHANGED <<apiVars, unitVars>>
  /\ ~ReproductionPending(newPopulation, population)
  /\ population' = newPopulation
  /\ newPopulation' = <<>>
  /\ parent1' = EmptyObject
  /\ parent2' = EmptyObject
  /\ gen' = gen + 1
  /\ callLog' = Logged(callLog, NoCall, NoCall, NoCall)
  /\ EnterGeneration(gen + 1, newPopulation, bestEver, improvements)
  /\ UNCHANGED <<config, bestEver, improvements, reproductions, allZero, maxTop>>

Next ==
  \/ InitializePopulationStep
  \/ InitializePopulationReturn
  \/ EvaluateIndividual
  \/ EvaluateFitnessReturn
  \/ Offspring
  \/ EvolvePopulationReturn

Spec == Init /\ [][Next]_vars

\* ------------------------------------- one request to a gated /api route
NoConfig ==
  [generations |-> Undefined, populationSize |-> Undefined,
   mutationRate |-> Undefined, crossoverRate |-> Undefined]

\* no run of evolvePrompt has been started; the request comes either from an
\* EvidenraClient or from some other HTTP client (NoClient)
ApiInit ==
  /\ config = NoConfig
  /\ pc = "idle"
  /\ population = <<>>
  /\ evaluated = <<>>
  /\ pending = {}
  /\ gen = 0
  /\ bestEver = Individual(BasePrompt, 0)
  /\ improvements = <<>>
  /\ newPopulation = <<>>
  /\ parent1 = EmptyObject
  /\ parent2 = EmptyObject
  /\ result = NoResult
  /\ calls = [fitness |-> 0, mutation |-> 0, crossover |-> 0]
  /\ passes = 0
  /\ reproductions = 0
  /\ allZero = TRUE
  /\ maxTop = 0
  /\ callLog = NotLogging
  /\ client \in Clients \cup {NoClient}
  /\ req = NoRequest
  /\ res = NoResponse
  /\ stage = "client"
  /\ UnitsIdle

Send(status) == [status |-> status, sent |-> res.sent + 1]

\* EvidenraClient.evolvePrompt up to the fetch of request()
ClientEvolvePrompt ==
  /\ stage = "client"
  /\ client # NoClient
  /\ IF ~hasFeature(client.subscription, "genesis") \/ client.accessToken = NoToken
     THEN /\ client' = [client EXCEPT !.threw = TRUE]
          /\ stage' = "end"
          /\ UNCHANGED req
     ELSE /\ client' = [client EXCEPT !.requests = @ + 1]
          /\ \E b \in Bodies :
               req' = [NoRequest EXCEPT
                         !.via = "client",
                         !.authorization = [scheme |-> "Bearer", token |-> client.accessToken],
                         !.body = b]
          /\ stage' = "validate"
  /\ UNCHANGED <<res, engineVars, unitVars>>

\* a request to a gated route sent by any other HTTP client
DirectRequest ==
  /\ stage = "client"
  /\ client = NoClient
  /\ \E f \in FeatureNames, h \in Headers, b \in Bodies :
       req' = [NoRequest EXCEPT
                 !.via = "direct", !.feature = f, !.authorization = h, !.body = b]
  /\ stage' = "validate"
  /\ UNCHANGED <<client, res, engineVars, unitVars>>

\* app.use('/api', validateSupabaseJWT)
ValidateSupabaseJWT ==
  /\ stage = "validate"
  /\ LET status == validateSupabaseJWT(req.authorization) IN
     IF status = NoStatus
     THEN /\ req' = [req EXCEPT !.user = User(req.authorization.token)]
          /\ stage' = "gate"
          /\ UNCHANGED res
     ELSE /\ res' = Send(status)
          /\ stage' = "responded"
          /\ UNCHANGED req
  /\ UNCHANGED <<client, engineVars, unitVars>>

\* the requireFeature(featureName) middleware of the route
RequireFeature ==
  /\ stage = "gate"
  /\ LET status == requireFeature(req.feature, req.user) IN
     IF status = NoStatus
     THEN /\ stage' = "handler"
          /\ UNCHANGED res
     ELSE /\ res' = Send(status)
          /\ stage' = "responded"
  /\ UNCHANGED <<client, req, engineVars, unitVars>>

\* POST /genesis/evolve: the handler calls evolvePrompt and awaits it
GenesisEvolveHandler ==
  /\ stage = "handler"
  /\ req.feature = "genesis"
  /\ config' = RouteConfig(req.body)
  /\ pc' = "initializing"
  /\ population' = <<Individual(BasePrompt, 0)>>
  /\ stage' = "engine"
  /\ UNCHANGED <<evaluated, pending, gen, bestEver, improvements, newPopulation,
                 parent1, parent2, result, calls, passes, reproductions,
                 allZero, maxTop, callLog, client, req, res, unitVars>>

\* evolvePrompt has settled: res.json(...) or the catch of the handler
GenesisEvolveRespond ==
  /\ stage = "engine"
  /\ pc \in {"done", "rejected"}
  /\ res' = Send(IF pc = "done" THEN Ok ELSE ServerError)
  /\ stage' = "responded"
  /\ UNCHANGED <<client, req, engineVars, unitVars>>

\* the handler of any other gated route answers or fails
OtherHandler ==
  /\ stage = "handler"
  /\ req.feature # "genesis"
  /\ \E status \in {Ok, BadRequest, ServerError} : res' = Send(status)
  /\ stage' = "responded"
  /\ UNCHANGED <<client, req, engineVars, unitVars>>

\* the response reaches the caller; request() throws unless it is ok
Receive ==
  /\ stage = "responded"
  /\ client' = IF req.via = "client"
               THEN [client EXCEPT !.threw = (res.status # Ok),
                                   !.returned = (res.status = Ok)]
               ELSE client
  /\ stage' = "end"
  /\ UNCHANGED <<req, res, engineVars, unitVars>>

ApiNext ==
  \/ ClientEvolvePrompt
  \/ DirectRequest
  \/ ValidateSupabaseJWT
  \/ RequireFeature
  \/ GenesisEvolveHandler
  \/ InitializePopulationStep
  \/ InitializePopulationReturn
  \/ EvaluateIndividual
  \/ EvaluateFitnessReturn
  \/ Offspring
  \/ EvolvePopulationReturn
  \/ GenesisEvolveRespond
  \/ OtherHandler
  \/ Receive

ApiSpec == ApiInit /\ [][ApiNext]_vars

\* ------------------------- a run of evolvePrompt with its calls logged
\* one generation over the smallest population that breeds an offspring
\* (the elites and one child), so that every call site is exercised
SmallestBreeding == EliteCount(0) + 1

LoggedConfigs ==
  {c \in Configs : c.generations = 1 /\ c.populationSize = SmallestBreeding}

CallInit ==
  /\ config \in LoggedConfigs
  /\ pc = "initializing"
  /\ population = <<Individual(BasePrompt, 0)>>
  /\ evaluated = <<>>
  /\ pending = {}
  /\ gen = 0
  /\ bestEver = Individual(BasePrompt, 0)
  /\ improvements = <<>>
  /\ newPopulation = <<>>
  /\ parent1 = EmptyObject
  /\ parent2 = EmptyObject
  /\ result = NoResult
  /\ calls = [fitness |-> 0, mutation |-> 0, crossover |-> 0]
  /\ passes = 0
  /\ reproductions = 0
  /\ allZero = TRUE
  /\ maxTop = 0
  /\ callLog = [NotLogging EXCEPT !.on = TRUE]
  /\ client = NoClient
  /\ req = NoRequest
  /\ res = NoResponse
  /\ stage = "engine"
  /\ UnitsIdle

CallSpec == CallInit /\ [][Next]_vars

\* ------------- calculatePromptFitness applied to one response at a time
\* the responses scored: every combination of the features the function
\* reads, with lengths from empty to three times the ideal length
Lengths ==
  {0, idealLength \div 2, idealLength, 2 * idealLength, 3 * idealLength}

Responses ==
  {ApiFailure} \cup
  {AnalysisResponse(b, c, r, m, l) :
     b \in BOOLEAN, c \in 0..MaxCodingCount, r \in BOOLEAN,
     m \in 0..methodTerms, l \in Lengths}

\* no run of evolvePrompt and no request
EngineIdle ==
  /\ config = NoConfig
  /\ pc = "idle"
  /\ population = <<>>
  /\ evaluated = <<>>
  /\ pending = {}
  /\ gen = 0
  /\ bestEver = Individual(BasePrompt, 0)
  /\ improvements = <<>>
  /\ newPopulation = <<>>
  /\ parent1 = EmptyObject
  /\ parent2 = EmptyObject
  /\ result = NoResult
  /\ calls = [fitness |-> 0, mutation |-> 0, crossover |-> 0]
  /\ passes = 0
  /\ reproductions = 0
  /\ allZero = TRUE
  /\ maxTop = 0
  /\ callLog = NotLogging

ApiIdle ==
  /\ client = NoClient
  /\ req = NoRequest
  /\ res = NoResponse
  /\ stage = "none"

FitnessInit ==
  /\ EngineIdle
  /\ ApiIdle
  /\ scoring \in {[NoScoring EXCEPT !.stage = "called", !.response = r] :
                     r \in Responses}
  /\ heap = NoHeap
  /\ runs = NoRuns

\* calculatePromptFitness from the response of the external call to its
\* return value
CalculatePromptFitness ==
  /\ scoring.stage = "called"
  /\ scoring' = [scoring EXCEPT
                   !.stage = "returned",
                   !.signals = Signals(scoring.response),
                   !.fitness = calculatePromptFitness(scoring.response)]
  /\ UNCHANGED <<engineVars, apiVars, heap, runs>>

FitnessNext == CalculatePromptFitness

FitnessSpec == FitnessInit /\ [][FitnessNext]_vars

\* ------ evaluateFitness, tournamentSelect and evolvePopulation on a heap
HeapIndividuals == {Individual(p, f) : p \in Texts, f \in {0, Weight}}

\* populations of every size up to the smallest that breeds past the elites
HeapPopulations == UNION {[1..n -> HeapIndividuals] : n \in 1..SmallestBreeding}

HeapOps == {"evaluateFitness", "tournamentSelect", "evolvePopulation"}

HeapInit ==
  /\ EngineIdle
  /\ ApiIdle
  /\ scoring = NoScoring
  /\ runs = NoRuns
  /\ heap \in {[NoHeap EXCEPT !.objects = pop,
                              !.given = [i \in DOMAIN pop |-> i],
                              !.stage = "idle"] : pop \in HeapPopulations}

\* one of the three functions is called with the population
HeapCall ==
  /\ heap.stage = "idle"
  /\ \E op \in HeapOps :
       heap' = [heap EXCEPT
                  !.op = op, !.stage = "running",
                  !.before = [given |-> heap.given, objects |-> heap.objects]]
  /\ UNCHANGED <<engineVars, apiVars, scoring, runs>>

\* evaluateFitness: { ...individual, fitness } for the next individual
HeapEvaluateIndividual ==
  /\ heap.stage = "running"
  /\ heap.op = "evaluateFitness"
  /\ Len(heap.local) < Len(heap.given)
  /\ \E out \in EvalOutcomes :
       LET individual == heap.objects[heap.given[Len(heap.local) + 1]] IN
       heap' = [heap EXCEPT
                  !.objects = Append(@, [individual EXCEPT
                                           !.fitness = calculatePromptFitness(out)]),
                  !.local = Append(@, Len(heap.objects) + 1)]
  /\ UNCHANGED <<engineVars, apiVars, scoring, runs>>

\* evaluateFitness: return evaluated.sort(...)
HeapEvaluateReturn ==
  /\ heap.stage = "running"
  /\ heap.op = "evaluateFitness"
  /\ Len(heap.local) = Len(heap.given)
  /\ LET target == SortedArray(heap.op)
         sorted == [heap EXCEPT ![target] = SortRefs(heap.objects, heap[target])]
     IN heap' = [sorted EXCEPT !.stage = "returned", !.returned = sorted.local]
  /\ UNCHANGED <<engineVars, apiVars, scoring, runs>>

\* tournamentSelect called on its own
HeapTournamentSelect ==
  /\ heap.stage = "running"
  /\ heap.op = "tournamentSelect"
  /\ \E draws \in [1..tournamentSize -> DOMAIN heap.given] :
       LET selected == Selected(heap, draws) IN
       heap' = [selected EXCEPT !.stage = "returned",
                                !.returned = <<selected.tournament[1]>>]
  /\ UNCHANGED <<engineVars, apiVars, scoring, runs>>

\* evolvePopulation: newPopulation.push({ ...population[i] })
HeapEliteCopy ==
  /\ heap.stage = "running"
  /\ heap.op = "evolvePopulation"
  /\ Len(heap.local) < EliteCount(Len(heap.given))
  /\ LET i == Len(heap.local) + 1
         copy == IF i \in DOMAIN heap.given THEN heap.objects[heap.given[i]]
                 ELSE EmptyObject
     IN heap' = [heap EXCEPT !.objects = Append(@, copy),
                             !.local = Append(@, Len(heap.objects) + 1)]
  /\ UNCHANGED <<engineVars, apiVars, scoring, runs>>

\* evolvePopulation: parent1 or parent2 = tournamentSelect(population)
HeapSelectParent ==
  /\ heap.stage = "running"
  /\ heap.op = "evolvePopulation"
  /\ Len(heap.local) >= EliteCount(Len(heap.given))
  /\ ReproductionPending(heap.local, heap.given)
  /\ Len(heap.parents) < 2
  /\ \E draws \in [1..tournamentSize -> DOMAIN heap.given] :
       LET selected == Selected(heap, draws) IN
       heap' = [selected EXCEPT !.parents = Append(@, selected.tournament[1])]
  /\ UNCHANGED <<engineVars, apiVars, scoring, runs>>

\* evolvePopulation: newPopulation.push({ prompt: child, fitness: 0 }), the
\* child being parent1's prompt, the parent crossoverPrompts falls back to,
\* or a text returned by crossover or mutation
HeapPushChild ==
  /\ heap.stage = "running"
  /\ heap.op = "evolvePopulation"
  /\ Len(heap.parents) = 2
  /\ \E child \in {heap.objects[heap.parents[1]].prompt,
                    heap.objects[heap.parents[2]].prompt} \cup GeneratedTexts :
       heap' = [heap EXCEPT !.objects = Append(@, Individual(child, 0)),
                            !.local = Append(@, Len(heap.objects) + 1),
                            !.parents = <<>>]
  /\ UNCHANGED <<engineVars, apiVars, scoring, runs>>

\* evolvePopulation: return newPopulation
HeapEvolveReturn ==
  /\ heap.stage = "running"
  /\ heap.op = "evolvePopulation"
  /\ Len(heap.local) >= EliteCount(Len(heap.given))
  /\ ~ReproductionPending(heap.local, heap.given)
  /\ heap' = [heap EXCEPT !.stage = "returned", !.returned = heap.local]
  /\ UNCHANGED <<engineVars, apiVars, scoring, runs>>

HeapNext ==
  \/ HeapCall
  \/ HeapEvaluateIndividual
  \/ HeapEvaluateReturn
  \/ HeapTournamentSelect
  \/ HeapEliteCopy
  \/ HeapSelectParent
  \/ HeapPushChild
  \/ HeapEvolveReturn

HeapSpec == HeapInit /\ [][HeapNext]_vars

\* ------------------- two calls of evolvePrompt interleaved at their awaits
\* the variables of the executing call
Frame ==
  [config |-> config,
   pc |-> pc,
   population |-> population,
   evaluated |-> evaluated,
   pending |-> pending,
   gen |-> gen,
   bestEver |-> bestEver,
   improvements |-> improvements,
   newPopulation |-> newPopulation,
   parent1 |-> parent1,
   parent2 |-> parent2,
   result |-> result,
   calls |-> calls,
   passes |-> passes,
   reproductions |-> reproductions,
   allZero |-> allZero,
   maxTop |-> maxTop,
   callLog |-> callLog]

\* the variables of a call of evolvePrompt when it reaches its first await
InitialFrame(c) ==
  [config |-> c,
   pc |-> "initializing",
   population |-> <<Individual(BasePrompt, 0)>>,
   evaluated |-> <<>>,
   pending |-> {},
   gen |-> 0,
   bestEver |-> Individual(BasePrompt, 0),
   improvements |-> <<>>,
   newPopulation |-> <<>>,
   parent1 |-> EmptyObject,
   parent2 |-> EmptyObject,
   result |-> NoResult,
   calls |-> [fitness |-> 0, mutation |-> 0, crossover |-> 0],
   passes |-> 0,
   reproductions |-> 0,
   allZero |-> TRUE,
   maxTop |-> 0,
   callLog |-> NotLogging]

\* the two calls: one that breeds with crossover and mutation, one that
\* keeps its two elites
RunConfig(r) ==
  IF r = 1
  THEN [generations |-> 1, populationSize |-> SmallestBreeding,
        mutationRate |-> 5, crossoverRate |-> 5]
  ELSE [generations |-> 1, populationSize |-> EliteCount(0),
        mutationRate |-> 0, crossoverRate |-> 0]

Runs == {1, 2}

TwoRunInit ==
  /\ config = InitialFrame(RunConfig(1)).config
  /\ pc = InitialFrame(RunConfig(1)).pc
  /\ population = InitialFrame(RunConfig(1)).population
  /\ evaluated = InitialFrame(RunConfig(1)).evaluated
  /\ pending = InitialFrame(RunConfig(1)).pending
  /\ gen = InitialFrame(RunConfig(1)).gen
  /\ bestEver = InitialFrame(RunConfig(1)).bestEver
  /\ improvements = InitialFrame(RunConfig(1)).improvements
  /\ newPopulation = InitialFrame(RunConfig(1)).newPopulation
  /\ parent1 = InitialFrame(RunConfig(1)).parent1
  /\ parent2 = InitialFrame(RunConfig(1)).parent2
  /\ result = InitialFrame(RunConfig(1)).result
  /\ calls = InitialFrame(RunConfig(1)).calls
  /\ passes = InitialFrame(RunConfig(1)).passes
  /\ reproductions = InitialFrame(RunConfig(1)).reproductions
  /\ allZero = InitialFrame(RunConfig(1)).allZero
  /\ maxTop = InitialFrame(RunConfig(1)).maxTop
  /\ callLog = InitialFrame(RunConfig(1)).callLog
  /\ client = NoClient
  /\ req = NoRequest
  /\ res = NoResponse
  /\ stage = "engine"
  /\ scoring = NoScoring
  /\ heap = NoHeap
  /\ runs = [running |-> 1, suspended |-> InitialFrame(RunConfig(2))]

\* the value the executing call finds in a variable after the switch
Resumed(v) == IF Local(v) THEN runs.suspended[v] ELSE Frame[v]

\* the executing call is suspended at an await, or has returned, and the
\* event loop resumes the other call
Switch ==
  /\ runs.running \in Runs
  /\ runs.suspended.pc \notin {"done", "rejected"}
  /\ runs' = [running |-> 3 - runs.running,
              suspended |-> [v \in DOMAIN Frame |->
                               IF Local(v) THEN Frame[v] ELSE runs.suspended[v]]]
  /\ config' = Resumed("config")
  /\ pc' = Resumed("pc")
  /\ population' = Resumed("population")
  /\ evaluated' = Resumed("evaluated")
  /\ pending' = Resumed("pending")
  /\ gen' = Resumed("gen")
  /\ bestEver' = Resumed("bestEver")
  /\ improvements' = Resumed("improvements")
  /\ newPopulation' = Resumed("newPopulation")
  /\ parent1' = Resumed("parent1")
  /\ parent2' = Resumed("parent2")
  /\ result' = Resumed("result")
  /\ calls' = Resumed("calls")
  /\ passes' = Resumed("passes")
  /\ reproductions' = Resumed("reproductions")
  /\ allZero' = Resumed("allZero")
  /\ maxTop' = Resumed("maxTop")
  /\ callLog' = Resumed("callLog")
  /\ UNCHANGED <<apiVars, scoring, heap>>

TwoRunNext ==
  \/ InitializePopulationStep
  \/ InitializePopulationReturn
  \/ EvaluateIndividual
  \/ EvaluateFitnessReturn
  \/ Offspring
  \/ EvolvePopulationReturn
  \/ Switch

TwoRunSpec == TwoRunInit /\ [][TwoRunNext]_vars




\* ------------------------------------------------------------ claims
Range(s) == {s[i] : i \in DOMAIN s}

\* C1: the population holds exactly populationSize individuals after
\* initialization and after every reproduction step, for any populationSize.
C1_PopulationSizeKept ==
  pc # "initializing" => Len(population) = config.populationSize

\* C2: bestEver.fitness never decreases from one step of the run to the next,
\* although a generation's top fitness may be lower than an earlier one's.
C2_BestEverNonDecreasing ==
  [][bestEver'.fitness >= bestEver.fitness]_vars

\* a later generation whose re-evaluated top scores below the best ever
C2_Witness ==
  /\ pc = "reproducing"
  /\ gen >= 1
  /\ population[1].fitness < bestEver.fitness
  /\ population[1].prompt = bestEver.prompt

\* C3: when the best fitness reaches 0.98 at a generation g < generations-1,
\* the loop stops there: the run is done, no evaluation pass of a later
\* generation was or will be started, and generationsRun <= g+1.
ConvergedEarly ==
  bestEver.fitness >= ConvergenceThreshold /\ gen < config.generations - 1

C3_StopsAtConvergence ==
  /\ [](ConvergedEarly =>
          /\ pc = "done"
          /\ passes = gen + 1
          /\ result.generationsRun <= gen + 1)
  /\ [][ConvergedEarly => passes' = passes /\ calls' = calls /\ gen' = gen]_vars

C3_Witness ==
  ConvergedEarly /\ pc = "done" /\ Len(population) >= 3

\* C4: at every reproduction step the eliteCount top-ranked individuals of the
\* sorted population exist and are, with the same prompt and in the same order,
\* the first eliteCount individuals of the next population.
C4_ElitesCarriedOver ==
  [][(pc = "reproducing" /\ pc' # "reproducing" /\ pc' # "rejected") =>
       \A i \in 1..EliteCount(config.populationSize) :
         /\ i \in DOMAIN population
         /\ i \in DOMAIN population'
         /\ population'[i].prompt = population[i].prompt]_vars

\* C5: for every configuration evolvePrompt accepts, the elite count handed
\* to reproduction is at most populationSize, so that the elite copy never
\* reads an individual that does not exist.
C5_EliteCountWithinPopulation ==
  pc = "reproducing" =>
    /\ EliteCount(config.populationSize) <= config.populationSize
    /\ EmptyObject \notin Range(newPopulation)

\* C6: evolvePrompt never rejects and always returns a well-formed result
\* (best a prompt text, fitness a score, generationsRun a count); when no
\* generation scored above the seed's 0 the result is basePrompt with fitness 0.
C6_AlwaysWellFormedResult ==
  /\ pc # "rejected"
  /\ pc = "done" =>
       /\ result.best \in Texts
       /\ result.fitness \in 0..Scale
       /\ result.generationsRun = Len(result.improvements)
       /\ (maxTop = 0 => result.fitness = 0 /\ result.best = BasePrompt)

\* C7: every run eventually reaches Done, performs at most `generations`
\* evaluation passes, and ends only because the generations are exhausted or
\* because the top fitness of the last pass is >= 0.98.  Termination is stated
\* by a variant: as long as the run is not done a step is enabled (a pending
\* external call can return or fail, or a continuation can run), and every
\* step strictly decreases
\* StepsLeft, a natural number; so a run in which every external call
\* eventually returns or fails reaches Done after at most StepsLeft steps.
LongestPopulation == Max(config.populationSize, 2)
GenerationSteps == 2 * LongestPopulation + 2

StepsLeft ==
  CASE pc = "initializing" ->
         Max(0, config.populationSize - Len(population)) + 1
           + config.generations * GenerationSteps
    [] pc = "evaluating" ->
         Cardinality(pending) + LongestPopulation + 2
           + (config.generations - gen - 1) * GenerationSteps
    [] pc = "reproducing" ->
         Max(0, Len(population) - Len(newPopulation)) + 1
           + (config.generations - gen - 1) * GenerationSteps
    [] OTHER -> 0

\* a step can be taken.  Offspring is enabled exactly when its guard holds and
\* a parent can be selected: its other choices range over non-empty constant
\* sets (RandomDraws, TextOutcomes).
OffspringEnabled ==
  /\ pc = "reproducing"
  /\ ReproductionPending(newPopulation, population)
  /\ TournamentResults(population) # {}

StepEnabled ==
  \/ ENABLED InitializePopulationStep
  \/ ENABLED InitializePopulationReturn
  \/ ENABLED EvaluateIndividual
  \/ ENABLED EvaluateFitnessReturn
  \/ OffspringEnabled
  \/ ENABLED EvolvePopulationReturn

C7_Terminates ==
  /\ [](pc = "done" \/ StepEnabled)
  /\ [](StepsLeft >= 0)
  /\ [][StepsLeft' < StepsLeft]_vars
  /\ [](passes <= config.generations)
  /\ [](pc = "done" =>
          \/ gen = config.generations
          \/ population[1].fitness >= ConvergenceThreshold)

\* a run that used up all its generations without converging
C7_Witness ==
  /\ pc = "done"
  /\ gen = config.generations
  /\ passes = MaxGen
  /\ maxTop < ConvergenceThreshold

\* C8: when every fitness evaluation of the run scored 0, improvements is
\* empty throughout and the result is best = basePrompt, fitness = 0,
\* generationsRun = 0.
C8_AllEvaluationsFail ==
  allZero =>
    /\ improvements = <<>>
    /\ pc = "done" =>
         result = [best |-> BasePrompt, fitness |-> 0, generationsRun |-> 0,
                   improvements |-> <<>>]

C8_Witness ==
  /\ allZero
  /\ pc = "done"
  /\ passes >= 2
  /\ config.populationSize >= 3
  /\ calls.fitness >= 6

\* C9: with populationSize = 1 and generations = 1 the run is a plain
\* evaluation: one fitness evaluation, no reproduction (no individual added
\* to the population, no mutation or crossover call), and the result is
\* basePrompt with the score of that evaluation.
C9_SingleIndividualIsPlainEvaluation ==
  (config.populationSize = 1 /\ config.generations = 1) =>
    /\ Len(population) = 1
    /\ Len(newPopulation) <= 1
    /\ reproductions = 0
    /\ calls.mutation = 0 /\ calls.crossover = 0
    /\ calls.fitness <= 1
    /\ pc = "done" =>
         /\ calls.fitness = 1
         /\ result.best = BasePrompt
         /\ result.fitness = population[1].fitness

\* C10: with mutationRate = 0 and crossoverRate = 0 every offspring pushed by
\* reproduction has the prompt of its first selected parent, which is a member
\* of the population being reproduced, and reproduction makes no mutation or
\* crossover call.
NoVariation == config.mutationRate = 0 /\ config.crossoverRate = 0

C10_OffspringCopiesFirstParent ==
  [][(NoVariation /\ pc = "reproducing") =>
       /\ calls'.mutation = calls.mutation
       /\ calls'.crossover = calls.crossover
       /\ Len(newPopulation') > Len(newPopulation) =>
            /\ newPopulation'[Len(newPopulation')].prompt = parent1'.prompt
            /\ parent1' \in Range(population)]_vars

\* an offspring was built whose two parents carry different prompts
C10_Witness ==
  /\ NoVariation
  /\ pc = "reproducing"
  /\ Len(newPopulation) > EliteCount(config.populationSize)
  /\ parent1.prompt # parent2.prompt
  /\ newPopulation[Len(newPopulation)].prompt = parent1.prompt

\* C11: every individual returned by tournamentSelect is a member of the
\* population it was given, the evaluated population of the current
\* generation; it is never undefined.
C11_TournamentSelectsMember ==
  (pc = "reproducing" /\ Len(newPopulation) > EliteCount(config.populationSize)) =>
    /\ parent1 \in Range(population)
    /\ parent2 \in Range(population)
    /\ parent1 # EmptyObject /\ parent2 # EmptyObject
    /\ passes = gen + 1

\* both parents selected, neither of them the top individual
C11_Witness ==
  /\ pc = "reproducing"
  /\ Len(newPopulation) > EliteCount(config.populationSize)
  /\ parent1 \in Range(population)
  /\ parent1.fitness < population[1].fitness
  /\ parent2 # parent1
  /\ gen >= 1

\* C12: the fitness calculatePromptFitness returns is in [0,1] for every
\* output text and for the failure case, and so the fitness of every
\* individual of every population is in [0,1].
C12_FitnessInUnitInterval ==
  /\ \A out \in EvalOutcomes : calculatePromptFitness(out) \in 0..Scale
  /\ \A i \in DOMAIN population : population[i].fitness \in 0..Scale
  /\ \A i \in DOMAIN evaluated : evaluated[i].fitness \in 0..Scale
  /\ \A i \in DOMAIN newPopulation : newPopulation[i].fitness \in 0..Scale

\* C13: the returned generationsRun is the number of records in improvements
\* when there is one, and otherwise the number of generations the loop
\* executed.
C13_GenerationsRunAsClaimed ==
  pc = "done" =>
    result.generationsRun =
      (IF improvements # <<>> THEN Len(improvements) ELSE passes)

\* C13 as amended: generationsRun is always the number of records in
\* improvements (0 when nothing was recorded, however many generations the
\* loop executed), and never more than the number of generations executed.
C13_GenerationsRunIsRecordCount ==
  pc = "done" =>
    /\ result.generationsRun = Len(improvements)
    /\ result.generationsRun <= passes
    /\ result.improvements = improvements

\* two generations executed, nothing recorded
C13_Witness ==
  /\ pc = "done"
  /\ improvements = <<>>
  /\ passes = 2
  /\ result.generationsRun = 0

\* C14: an invalid configuration (generations < 1 or populationSize < 2) is
\* surfaced as an error before the loop starts: nothing is seeded, no external
\* call is issued, no evaluation pass runs and no result is returned.
InvalidConfig == config.generations < 1 \/ config.populationSize < 2

C14_InvalidConfigRejected ==
  InvalidConfig =>
    /\ calls = [fitness |-> 0, mutation |-> 0, crossover |-> 0]
    /\ passes = 0
    /\ Len(population) = 1
    /\ pc \notin {"evaluating", "reproducing", "done"}

\* C15: for every request to POST /api/genesis/evolve, evolvePrompt is
\* invoked only if the verified token's subscription is 'pro' or 'ultimate';
\* for 'free', 'basic', a missing or an unknown subscription the request is
\* answered 403 (once) and the engine is never invoked: no run is started and
\* no external call is issued.
GenesisPlans == {"pro", "ultimate"}

C16_ClientGateAgreesWithServer ==
  /\ (client # NoClient /\ client.subscription \in {"free", "basic"}) =>
       client.requests = 0
  /\ (/\ req.via = "client"
      /\ req.user.set
      /\ req.user.subscription = client.subscription
      /\ stage \in {"responded", "end"}) =>
       res.status # Forbidden

\* C17: after every evaluation pass the population is sorted in descending
\* fitness (a reordering of the evaluated individuals), and the best-ever
\* comparison and the elite copy read this order: the individual compared
\* with bestEver is the first one and holds the pass's top fitness, and the
\* elites are the first individuals of the sorted population.
SortedDescending(pop) ==
  \A i \in 1..(Len(pop) - 1) : pop[i].fitness >= pop[i + 1].fitness

SameIndividuals(a, b) ==
  /\ Len(a) = Len(b)
  /\ \A x \in Range(a) \cup Range(b) :
       Cardinality({i \in DOMAIN a : a[i] = x}) =
       Cardinality({i \in DOMAIN b : b[i] = x})

PassCompletes == pc = "evaluating" /\ pc' # "evaluating"

C17_SortedAfterEvaluation ==
  /\ [](pc = "reproducing" => SortedDescending(population))
  /\ [][PassCompletes =>
          /\ SortedDescending(population')
          /\ SameIndividuals(population', evaluated)
          /\ population'[1].fitness = TopFitness(evaluated)
          /\ bestEver' = IF population'[1].fitness > bestEver.fitness
                         THEN population'[1] ELSE bestEver
          /\ pc' = "reproducing" =>
               \A i \in 1..Min(EliteCount(config.populationSize), Len(population')) :
                 newPopulation'[i] = population'[i]]_vars

C17_Witness ==
  /\ pc = "reproducing"
  /\ Len(population) = 3
  /\ population[1].fitness > population[3].fitness
  /\ population[1].prompt # BasePrompt
  /\ population[3].prompt = BasePrompt
  /\ bestEver = population[1]
  /\ newPopulation[1] = population[1]

\* C18: evaluation is a barrier and generations never overlap.  All fitness
\* evaluations of a pass are dispatched together and none later; while a
\* call of the pass is outstanding neither bestEver, the improvements log,
\* the population nor the reproduction changes; a pass starts only when no
\* reproduction is unfinished; each completion stores its score under the
\* individual's own index and touches nothing else, so the evaluated
\* population does not depend on the order of completion.
PassStarts == pc # "evaluating" /\ pc' = "evaluating"

C18_EvaluationBarrier ==
  /\ [](pc # "evaluating" => pending = {})
  /\ [](pc \in {"evaluating", "reproducing"} => passes = gen + 1)
  /\ [][PassStarts =>
          /\ pending' = DOMAIN population'
          /\ calls'.fitness = calls.fitness + Len(population')
          /\ pc = "reproducing" => ~ReproductionPending(newPopulation, population)]_vars
  /\ [][~PassStarts => calls'.fitness = calls.fitness /\ passes' = passes]_vars
  /\ [][pending # {} =>
          /\ pc' = "evaluating"
          /\ UNCHANGED <<bestEver, improvements, population, newPopulation,
                         reproductions, gen, result>>
          /\ \E i \in pending :
               /\ pending' = pending \ {i}
               /\ evaluated'[i].prompt = population[i].prompt
               /\ \A j \in DOMAIN evaluated \ {i} : evaluated'[j] = evaluated[j]]_vars

C18_Witness ==
  /\ pc = "evaluating"
  /\ gen = 1
  /\ Len(population) = 3
  /\ pending = {1, 2}
  /\ evaluated[3].fitness > 0
  /\ improvements # <<>>

\* C19: every failure of an external call is recovered at its call site
\* with one fallback and no retry.  No failure leaves the run (it is never
\* rejected); a failed evaluation scores 0, a failed mutation returns its
\* input prompt, a failed crossover returns one of its two parent prompts;
\* every call is counted once; and the step changes only the individual the
\* call was made for: the other evaluated individuals, the population and
\* the offspring already produced are as before.
Counted(c) == IF c.called THEN 1 ELSE 0
Failed(c) == c.called /\ ~c.ok

EvaluationCompletes == pc = "evaluating" /\ pending' # pending
Seeds == pc = "initializing" /\ population' # population
Breeds == pc = "reproducing" /\ Len(newPopulation') > Len(newPopulation)

C19_FailuresRecoveredAtCallSite ==
  /\ [](pc # "rejected")
  /\ [](Failed(callLog.fitness) => callLog.fitness.value = 0)
  /\ [](Failed(callLog.mutation) =>
          callLog.mutation.value = callLog.mutation.inputs[1])
  /\ [](Failed(callLog.crossover) =>
          callLog.crossover.value \in Range(callLog.crossover.inputs))
  /\ [][calls' =
          [fitness |-> calls.fitness + (IF PassStarts THEN Len(population') ELSE 0),
           mutation |-> calls.mutation + Counted(callLog'.mutation),
           crossover |-> calls.crossover + Counted(callLog'.crossover)]]_vars
  /\ [][EvaluationCompletes =>
          /\ callLog'.fitness.called
          /\ \E i \in pending :
               /\ pending' = pending \ {i}
               /\ callLog'.fitness.inputs = <<population[i].prompt>>
               /\ evaluated'[i] = Individual(population[i].prompt, callLog'.fitness.value)
               /\ \A j \in DOMAIN evaluated \ {i} : evaluated'[j] = evaluated[j]
          /\ UNCHANGED <<pc, population, bestEver, improvements>>]_vars
  /\ [][Seeds =>
          /\ callLog'.mutation.called
          /\ callLog'.mutation.inputs = <<BasePrompt>>
          /\ population' = Append(population, Individual(callLog'.mutation.value, 0))
          /\ pc' = pc]_vars
  /\ [][Breeds =>
          LET cross == callLog'.crossover
              mut == callLog'.mutation
              crossed == IF cross.called THEN cross.value ELSE parent1'.prompt
              child == IF mut.called THEN mut.value ELSE crossed
          IN /\ cross.called => cross.inputs = <<parent1'.prompt, parent2'.prompt>>
             /\ mut.called => mut.inputs = <<crossed>>
             /\ newPopulation' = Append(newPopulation, Individual(child, 0))
             /\ UNCHANGED <<pc, population, bestEver, improvements>>]_vars

C19_Witness ==
  /\ pc = "reproducing"
  /\ Failed(callLog.crossover)
  /\ Failed(callLog.mutation)
  /\ parent1.prompt # parent2.prompt
  /\ Len(newPopulation) = Len(population)
  /\ newPopulation[Len(newPopulation)] = Individual(parent2.prompt, 0)
  /\ \E i \in DOMAIN population : population[i].fitness = 0
  /\ \E i \in DOMAIN population : population[i].fitness > 0

\* C20: a GenerationRecord is appended in a generation if and only if the
\* generation's top fitness is strictly greater than the best-ever fitness
\* held before it; the record's improvement is its fitness minus that
\* previous best-ever fitness, hence strictly positive; generation indices
\* and fitness values strictly increase along the log; the log only grows,
\* its earlier entries are never changed.
C20_RecordIffStrictImprovement ==
  /\ [][PassCompletes =>
          LET top == TopFitness(evaluated) IN
          IF top > bestEver.fitness
          THEN improvements' =
                 Append(improvements,
                        [generation |-> gen, fitness |-> top,
                         improvement |-> top - bestEver.fitness])
          ELSE improvements' = improvements]_vars
  /\ [][~PassCompletes => improvements' = improvements]_vars
  /\ [][/\ Len(improvements') >= Len(improvements)
        /\ SubSeq(improvements', 1, Len(improvements)) = improvements]_vars
  /\ [](\A i \in DOMAIN improvements :
          /\ improvements[i].improvement > 0
          /\ i > 1 =>
               /\ improvements[i].generation > improvements[i - 1].generation
               /\ improvements[i].fitness > improvements[i - 1].fitness)

C20_Witness ==
  /\ pc = "done"
  /\ Len(improvements) = 2
  /\ improvements[1].generation = 0
  /\ improvements[2].generation = 1
  /\ improvements[2].improvement = improvements[2].fitness - improvements[1].fitness
  /\ improvements[2].improvement < improvements[2].fitness

\* C21 (as claimed): the first GenerationRecord appended in a run has
\* improvement = 0, whichever generation it is recorded in.
C21_FirstImprovementZero ==
  improvements # <<>> => improvements[1].improvement = 0

\* C21 (as amended): the first GenerationRecord of a run has improvement
\* equal to its own fitness (the previous best-ever fitness is 0), which is
\* strictly positive, whichever generation it is recorded in.
C21_FirstImprovementIsFitness ==
  improvements # <<>> =>
    /\ improvements[1].improvement = improvements[1].fitness
    /\ improvements[1].improvement > 0

C21_Witness ==
  /\ pc = "done"
  /\ Len(improvements) = 1
  /\ improvements[1].generation = 1
  /\ improvements[1].improvement = improvements[1].fitness

\* C22: initializePopulation(basePrompt, size) returns exactly `size`
\* individuals, the first being the unmodified base prompt, all with fitness
\* 0, after exactly size - 1 external generation calls, for every size it
\* can be called with (size <= 1 included).
InitialPopulationReturned ==
  /\ pc # "initializing"
  /\ passes = 0 \/ (pc = "evaluating" /\ gen = 0)

C22_InitialPopulationExact ==
  InitialPopulationReturned =>
    /\ Len(population) = config.populationSize
    /\ population[1] = Individual(BasePrompt, 0)
    /\ \A i \in DOMAIN population : population[i].fitness = 0
    /\ calls.mutation = config.populationSize - 1

\* C23: reproduction runs exactly once after every evaluation pass whose top
\* fitness is below 0.98, the pass of the final generation included, and
\* never after a pass that converged: a pass with top fitness >= 0.98 ends
\* the run with the result returned, and from then on no mutation, crossover
\* or evaluation call is issued.
C23_ReproductionOncePerOpenPass ==
  /\ [][PassCompletes =>
          /\ calls' = calls
          /\ IF TopFitness(evaluated) < ConvergenceThreshold
             THEN /\ pc' = "reproducing"
                  /\ reproductions' = reproductions + 1
             ELSE /\ pc' = "done"
                  /\ result' # NoResult
                  /\ reproductions' = reproductions]_vars
  /\ [][~PassCompletes => reproductions' = reproductions]_vars
  /\ [][pc = "done" => UNCHANGED <<pc, calls, passes, reproductions>>]_vars
  /\ [](pc = "evaluating" => reproductions = passes - 1)
  /\ [](pc = "reproducing" => reproductions = passes)
  /\ [](pc = "done" =>
          reproductions = passes - (IF maxTop >= ConvergenceThreshold THEN 1 ELSE 0))

C23_Witness ==
  /\ pc = "done"
  /\ config.generations = 2
  /\ passes = 2
  /\ reproductions = 2
  /\ maxTop > 0
  /\ calls.mutation + calls.crossover > config.populationSize

\* C25: tournamentSelect returns, among the tournamentSize individuals drawn
\* with replacement, one of maximal fitness, and among several drawn
\* individuals of maximal fitness the first one drawn; it is determined by
\* the population and the sequence of draws.  Stated for every population
\* that reaches the selection and every sequence of draws.
DrawSequences(pop) == [1..tournamentSize -> DOMAIN pop]

FirstBestDrawn(pop, draws) ==
  CHOOSE k \in 1..tournamentSize :
    /\ \A j \in 1..tournamentSize : pop[draws[j]].fitness <= pop[draws[k]].fitness
    /\ \A j \in 1..(k - 1) : pop[draws[j]].fitness < pop[draws[k]].fitness

C25_TournamentReturnsFirstBest ==
  (pc = "reproducing" /\ ReproductionPending(newPopulation, population)) =>
    \A draws \in DrawSequences(population) :
      LET winner == tournamentSelect(population, draws) IN
      /\ winner \in {population[draws[k]] : k \in 1..tournamentSize}
      /\ \A k \in 1..tournamentSize : population[draws[k]].fitness <= winner.fitness
      /\ winner = population[draws[FirstBestDrawn(population, draws)]]

C25_Witness ==
  /\ pc = "reproducing"
  /\ Len(newPopulation) > EliteCount(config.populationSize)
  /\ population[1].fitness = population[2].fitness
  /\ population[1].prompt # population[2].prompt
  /\ population[3].fitness < population[2].fitness
  /\ parent1 = population[2]
  /\ parent2 = population[3]

\* C27: each of the five fitness sub-signals (structure, codings, reasoning,
\* methodology, length) contributes at most its declared weight of 0.2 to
\* the fitness before the final clamp; in particular the contribution of
\* the methodological terms is capped.
SignalNames == {"structure", "codings", "reasoning", "methodology", "length"}

C27_EachSignalWithinWeight ==
  (scoring.stage = "returned" /\ scoring.response.ok) =>
    \A n \in SignalNames : scoring.signals[n] \in 0..Weight

\* C28: requireFeature(featureName) lets a request pass (calls next(), so
\* that the route handler runs) only if the user's subscription features
\* grant the named feature, for every feature name used by a route
\* ('genesis', 'akih', 'coding', 'irr', 'reports'); otherwise it answers 403.
Grants(features, featureName) ==
  featureName \in DOMAIN features /\ features[featureName]

PastGate == stage \in {"handler", "engine"}

C28_GateChecksNamedFeature ==
  /\ PastGate => Grants(req.user.features, req.feature)
  /\ (req.user.set /\ stage = "responded" /\ ~Grants(req.user.features, req.feature)) =>
       res.status = Forbidden

\* C29: validateSupabaseJWT calls next() only after the bearer token was
\* verified and req.user was set, with the token's subscription ('free' when
\* absent) and the features of that subscription; on every failing path
\* (missing or non-bearer header, expired token, invalid token, any other
\* error) it sends exactly one response, 401 or 500, sets no req.user and
\* does not call next(); no later middleware or handler runs without
\* req.user, and a request is answered at most once.
PastValidation == stage \in {"gate", "handler", "engine"}

C29_ValidationBeforeNext ==
  /\ [](PastValidation =>
          /\ req.authorization.scheme = "Bearer"
          /\ req.authorization.token.verify = "ok"
          /\ req.user.set
          /\ req.user.subscription =
               (IF req.authorization.token.subscription = NoSubscription
                THEN "free" ELSE req.authorization.token.subscription)
          /\ req.user.features =
               getFeaturesBySubscription(req.authorization.token.subscription)
          /\ res = NoResponse)
  /\ [](pc # "idle" => req.user.set)
  /\ [](res.sent <= 1)
  /\ [][stage = "validate" =>
          IF req.authorization.scheme = "Bearer" /\ req.authorization.token.verify = "ok"
          THEN stage' = "gate" /\ res' = res
          ELSE /\ stage' = "responded"
               /\ res'.sent = 1
               /\ res'.status =
                    (IF req.authorization.token.verify = "NotBeforeError"
                        /\ req.authorization.scheme = "Bearer"
                     THEN ServerError ELSE Unauthorized)
               /\ req' = req
               /\ ~req.user.set]_vars

C29_Witness ==
  /\ stage = "end"
  /\ req.authorization.scheme = "Bearer"
  /\ req.authorization.token.verify = "NotBeforeError"
  /\ res = [status |-> ServerError, sent |-> 1]
  /\ ~req.user.set
  /\ pc = "idle"

\* C30: when evolvePrompt returns, result.fitness is the maximum over all
\* evaluation passes of the pass's top fitness (0 if no pass scored above 0)
\* and result.best is the prompt of the top individual of the earliest pass
\* that attained this maximum (basePrompt if the maximum is 0).  maxTop is
\* the maximum of the top fitnesses so far; bestEver is replaced by the top
\* individual of a pass exactly when that pass exceeds maxTop, so a later
\* pass that only equals the maximum does not replace it.
C30_ResultIsEarliestMaximum ==
  /\ [](bestEver.fitness = maxTop)
  /\ [](maxTop = 0 => bestEver.prompt = BasePrompt)
  /\ [][PassCompletes =>
          LET top == TopFitness(evaluated) IN
          /\ maxTop' = Max(maxTop, top)
          /\ population'[1].fitness = top
          /\ bestEver' = IF top > maxTop THEN population'[1] ELSE bestEver]_vars
  /\ [][~PassCompletes => bestEver' = bestEver /\ maxTop' = maxTop]_vars
  /\ [](pc = "done" =>
          /\ result.fitness = maxTop
          /\ result.best = bestEver.prompt)

\* the returned prompt is not in the final population
C30_Witness ==
  /\ pc = "done"
  /\ passes = 2
  /\ result.fitness > 0
  /\ result.best # BasePrompt
  /\ result.best \notin {population[i].prompt : i \in DOMAIN population}
  /\ improvements[1].generation = 0

\* the population array handed in and every object that existed at the call
\* are as they were at the call
InputUntouched ==
  /\ heap.given = heap.before.given
  /\ \A id \in DOMAIN heap.before.objects :
       heap.objects[id] = heap.before.objects[id]

\* the references returned are to objects created during the call, each once
ReturnsNewObjects ==
  /\ \A k \in DOMAIN heap.returned :
       heap.returned[k] \notin DOMAIN heap.before.objects
  /\ \A k, l \in DOMAIN heap.returned :
       heap.returned[k] = heap.returned[l] => k = l

\* C24: selection, evaluation and reproduction leave the population they are
\* given and every existing individual as they were (same individuals, same
\* order, same values) while they run and after they return; the candidates
\* evaluateFitness and evolvePopulation return are new objects, and
\* tournamentSelect returns one of the members of the population.
C24_InputPopulationUntouched ==
  /\ heap.stage \in {"running", "returned"} => InputUntouched
  /\ (heap.stage = "returned" /\ heap.op \in {"evaluateFitness", "evolvePopulation"})
       => ReturnsNewObjects
  /\ (heap.stage = "returned" /\ heap.op = "tournamentSelect")
       => heap.returned[1] \in Range(heap.given)

\* evaluateFitness has returned a population in another order and with other
\* fitness values than the population it was given
C24_Witness ==
  /\ heap.stage = "returned"
  /\ heap.op = "evaluateFitness"
  /\ Len(heap.given) = SmallestBreeding
  /\ heap.objects[heap.returned[1]].prompt # heap.objects[heap.given[1]].prompt
  /\ \A k \in DOMAIN heap.given :
       heap.objects[heap.returned[k]].fitness # heap.objects[heap.given[k]].fitness
  /\ InputUntouched

\* the variables call r of evolvePrompt works with: its own when it has its
\* own copy, the one every call shares otherwise
RunState(r) ==
  [v \in DOMAIN Frame |->
     IF runs.running = r \/ ~Local(v) THEN Frame[v] ELSE runs.suspended[v]]

\* call r holds what a call running alone with its configuration holds
AsIfAlone(r) ==
  LET own == RunState(r) IN
  /\ own.config = RunConfig(r)
  /\ Len(own.population) <= own.config.populationSize
  /\ own.calls.fitness <= own.config.generations * own.config.populationSize
  /\ Len(own.improvements) <= own.config.generations
  /\ own.pc = "done" => own.result = Result(own.bestEver, own.improvements)

\* C26: two calls of evolvePrompt interleaved at their awaits share no
\* population, bestEver or improvements: a step of one call, and the switch
\* from one call to the other, leave every variable of the call that is not
\* executing as it was, and each call holds and returns what it would have
\* running alone.
C26_ConcurrentRunsIndependent ==
  /\ [](\A r \in Runs : AsIfAlone(r))
  /\ [][\A r \in Runs :
          (runs.running # r \/ runs'.running # r) => RunState(r)' = RunState(r)]_vars

\* the first call has returned its result while the second, started before
\* that, is in the middle of its evaluation pass with another population
C26_Witness ==
  /\ RunState(1).pc = "done"
  /\ RunState(1).result.generationsRun = 1
  /\ RunState(2).pc = "evaluating"
  /\ Cardinality(RunState(2).pending) = 1
  /\ Len(RunState(2).population) # Len(RunState(1).population)
  /\ runs.running = 2

====
